---- MODULE Spec2Model ----
(***************************************************************************)
(* The Streamlit dashboard of src/app.py as a state machine.               *)
(*                                                                         *)
(* One server process holds the two memoization stores (st.cache_data for  *)
(* load_data, st.cache_resource for train_models).  One browser session    *)
(* holds the widget values.  Every interaction (page load, widget change,  *)
(* button click) re-executes the whole script top to bottom: RunScript.    *)
(*                                                                         *)
(* The random forests are a library black box.  A fitted estimator is      *)
(* represented by what determines it (training data, label, random_state,  *)
(* number of trees, fitted columns), and its prediction is an              *)
(* uninterpreted function of that and of the row (Mix).  A probability is  *)
(* the rational votes/n_estimators; an engagement value is an integer      *)
(* number of 1e-5 units.  The dataset file is not part of the sources: its *)
(* columns, dtypes and categories are those the specification lists.       *)
(***************************************************************************)
EXTENDS Integers, Sequences, FiniteSets, TLC

VARIABLES
    file,             \* contents (an id) of data/final_instagram_model_data.csv
    epoch,            \* number of restarts of the server process so far
    data_cache,       \* st.cache_data store of load_data: <<>> or <<df>>
    resource_cache,   \* st.cache_resource store of train_models: {[key, value]}
    reads,            \* pd.read_csv calls made by this process
    fits,             \* train_models bodies run by this process
    fit_log,          \* the pair of models of every training run, in order
    session,          \* a browser session is connected
    edits,            \* widget changes made in this session
    rejected,         \* the latest interaction was a number the number_input refused
    last,             \* what the button returned in the session's previous pass
    widgets,          \* the session's widget values
    analyze,          \* what st.sidebar.button returned in the latest pass
    input_df,         \* the row assembled in the latest pass
    viral_prob,       \* <<>> for None, <<[num, den]>> for a float num/den
    engagement_pred,  \* <<>> for None, <<e>> for e * 1e-5
    proba_calls,      \* rows handed to viral_model.predict_proba in the latest pass
    predict_calls,    \* rows handed to engagement_model.predict in the latest pass
    viral_card,       \* text of the Viral Probability card
    engagement_card,  \* text of the Predicted Engagement card
    followers_card,   \* text of the Followers card
    insight,          \* the banners rendered in the AI Insights section
    raised            \* the latest pass ended in an exception

process == <<file, epoch, data_cache, resource_cache, reads, fits, fit_log>>

pass == <<widgets, analyze, input_df, viral_prob, engagement_pred, proba_calls,
          predict_calls, viral_card, engagement_card, followers_card, insight,
          raised>>

vars == <<process, pass, session, edits, rejected, last>>

----------------------------------------------------------------------------
(* Bounds of the model *)

MaxEdits == 2
MaxRestarts == 1
NumDatasets == 3

----------------------------------------------------------------------------
(* The dataset file: its columns, dtypes and categories *)

DatasetColumns ==
    << "account_type", "media_type", "content_category", "traffic_source",
       "follower_count", "hashtags_count", "caption_length", "has_cta",
       "is_weekend", "post_hour", "likes", "comments", "shares", "saves",
       "is_viral", "normalized_engagement" >>

ObjectColumns ==
    {"account_type", "media_type", "content_category", "traffic_source"}

\* The distinct values of the categorical columns, in sorted order.
Categories ==
    [account_type     |-> <<"Business", "Creator">>,
     media_type       |-> <<"Image", "Reel">>,
     content_category |-> <<"Fashion", "Food">>,
     traffic_source   |-> <<"Explore", "Hashtags">>]

\* pd.read_csv(path)
read_csv(f) ==
    [id      |-> f,
     columns |-> DatasetColumns,
     dtypes  |-> [c \in {DatasetColumns[i] : i \in 1..Len(DatasetColumns)} |->
                    IF c \in ObjectColumns THEN "object" ELSE "number"]]

\* sorted(df[col].unique())
SortedUnique(df, col) == Categories[col]

----------------------------------------------------------------------------
(* Helpers on sequences *)

Range(s) == {s[i] : i \in 1..Len(s)}

IndexOf(s, v) == CHOOSE i \in 1..Len(s) : s[i] = v

\* df.drop(columns=names)
Drop(cols, names) == SelectSeq(cols, LAMBDA c : c \notin names)

----------------------------------------------------------------------------
(* Memoization: st.cache_data and st.cache_resource *)

\* load_data(): the body of the function, run on a cache miss.
load_data == read_csv(file)

\* Faulty variant: the decorator is missing, every call reads the file.
cache_data_missing(store) ==
    [value |-> load_data, store |-> <<load_data>>, computed |-> 1]

\* @st.cache_data on load_data, which takes no argument: one entry.
cache_data(store) ==
    IF store # <<>>
    THEN [value |-> store[1], store |-> store, computed |-> 0]
    ELSE [value |-> load_data, store |-> <<load_data>>, computed |-> 1]

\* Faulty variant: no random_state, every process seeds the forests afresh.
RandomStateUnset == 1000 + epoch

\* RandomForest*(n_estimators=150, random_state=42)
RandomState == 42

\* Pipeline([("prep", preprocessor), ("model", estimator)]).fit(X, y): the
\* fitted pipeline is determined by the preprocessor, the estimator's
\* parameters and the training data.
Fit(preprocessor, estimator, n_estimators, random_state, X, y) ==
    [features     |-> X.columns,
     cat          |-> preprocessor.cat,
     num          |-> preprocessor.num,
     estimator    |-> estimator,
     n_estimators |-> n_estimators,
     seed         |-> random_state,
     data         |-> X.id,
     label        |-> y]

\* Faulty variant: only one of the two labels is dropped.
FeatureColumnsOneLabel(df) == Drop(df.columns, {"is_viral"})

\* X = df.drop(columns=["is_viral", "normalized_engagement"])
FeatureColumns(df) == Drop(df.columns, {"is_viral", "normalized_engagement"})

\* train_models(df): the body of the function, run on a cache miss.
train_models(df) ==
    LET X == [columns |-> FeatureColumns(df), id |-> df.id]
        cat_cols == SelectSeq(X.columns, LAMBDA c : df.dtypes[c] = "object")
        num_cols == SelectSeq(X.columns, LAMBDA c : df.dtypes[c] # "object")
        preprocessor == [cat |-> cat_cols, num |-> num_cols]
    IN  [viral_model |->
            Fit(preprocessor, "RandomForestClassifier", 150, RandomState,
                X, "is_viral"),
         engagement_model |->
            Fit(preprocessor, "RandomForestRegressor", 150, RandomState,
                X, "normalized_engagement")]

\* @st.cache_resource on train_models(df): entries keyed by the argument.
cache_resource(store, df) ==
    IF \E e \in store : e.key = df
    THEN [value |-> (CHOOSE e \in store : e.key = df).value,
          store |-> store, computed |-> 0]
    ELSE LET models == train_models(df)
         IN  [value |-> models,
              store |-> store \cup {[key |-> df, value |-> models]},
              computed |-> 1]

----------------------------------------------------------------------------
(* Sidebar widgets *)

\* st.sidebar.number_input(label, min_value, max_value, value)
NumberInputs ==
    [follower_count |-> [min |-> 100, max |-> 1000000, value |-> 10000],
     likes          |-> [min |-> 0,   max |-> 50000,   value |-> 500],
     comments       |-> [min |-> 0,   max |-> 5000,    value |-> 50],
     shares         |-> [min |-> 0,   max |-> 5000,    value |-> 20],
     saves          |-> [min |-> 0,   max |-> 5000,    value |-> 30]]

\* st.sidebar.slider(label, min_value, max_value, value)
Sliders ==
    [hashtags_count |-> [min |-> 0, max |-> 30,  value |-> 10],
     caption_length |-> [min |-> 0, max |-> 300, value |-> 50],
     post_hour      |-> [min |-> 0, max |-> 23,  value |-> 18]]

SelectboxNames ==
    {"account_type", "media_type", "content_category", "traffic_source",
     "has_cta", "is_weekend"}

\* The options of st.sidebar.selectbox(label, options)
Options(df, name) ==
    IF name \in {"has_cta", "is_weekend"} THEN <<0, 1>> ELSE SortedUnique(df, name)

\* The widget values of a session that has touched nothing: a selectbox
\* starts on its first option, a number_input and a slider on `value`.
Defaults(df) ==
    [account_type     |-> Options(df, "account_type")[1],
     media_type       |-> Options(df, "media_type")[1],
     content_category |-> Options(df, "content_category")[1],
     traffic_source   |-> Options(df, "traffic_source")[1],
     follower_count   |-> NumberInputs.follower_count.value,
     hashtags_count   |-> Sliders.hashtags_count.value,
     caption_length   |-> Sliders.caption_length.value,
     post_hour        |-> Sliders.post_hour.value,
     has_cta          |-> Options(df, "has_cta")[1],
     is_weekend       |-> Options(df, "is_weekend")[1],
     likes            |-> NumberInputs.likes.value,
     comments         |-> NumberInputs.comments.value,
     shares           |-> NumberInputs.shares.value,
     saves            |-> NumberInputs.saves.value]

\* Faulty variant: the number_input has no limits.
number_input_unbounded(spec, current, typed) == typed

\* What the number_input does with a typed number: a number outside
\* [min_value, max_value] is not committed and the widget keeps its value.
number_input(spec, current, typed) ==
    IF typed < spec.min \/ typed > spec.max THEN current ELSE typed

\* Numbers a user may type into a number_input: around and at its limits.
Typed(spec) == {spec.min - 1, spec.min, spec.value, spec.max, spec.max + 1}

\* Positions a user may drag a slider to: it cannot leave its range.
Positions(spec) == {spec.min, spec.value, spec.max}

----------------------------------------------------------------------------
(* Feature Assembler *)

\* Faulty variant: a numeric field whose value is 0 is left out of the row.
InputDFWithoutZeros(w) ==
    LET full == [c \in {"has_cta", "is_weekend", "hashtags_count",
                        "caption_length", "post_hour", "follower_count",
                        "likes", "comments", "shares", "saves"} |-> w[c]]
        keep(c) == c \notin DOMAIN full \/ full[c] # 0
        all == << "account_type", "media_type", "content_category",
                  "traffic_source", "follower_count", "hashtags_count",
                  "caption_length", "has_cta", "is_weekend", "post_hour",
                  "likes", "comments", "shares", "saves" >>
        kept == SelectSeq(all, keep)
    IN  [i \in 1..Len(kept) |-> <<kept[i], w[kept[i]]>>]

\* input_df = pd.DataFrame([{...}]): one row, as (column, value) pairs in
\* the order of the dict literal.
InputDF(w) ==
    << <<"account_type", w.account_type>>,
       <<"media_type", w.media_type>>,
       <<"content_category", w.content_category>>,
       <<"traffic_source", w.traffic_source>>,
       <<"follower_count", w.follower_count>>,
       <<"hashtags_count", w.hashtags_count>>,
       <<"caption_length", w.caption_length>>,
       <<"has_cta", w.has_cta>>,
       <<"is_weekend", w.is_weekend>>,
       <<"post_hour", w.post_hour>>,
       <<"likes", w.likes>>,
       <<"comments", w.comments>>,
       <<"shares", w.shares>>,
       <<"saves", w.saves>> >>

\* input_df.columns
Columns(row) == [i \in 1..Len(row) |-> row[i][1]]

\* input_df[c][0]
Value(row, c) == row[CHOOSE i \in 1..Len(row) : row[i][1] = c][2]

----------------------------------------------------------------------------
(* Prediction Caller *)

\* The preprocessing of one column: a categorical value becomes its one-hot
\* position among the fitted categories (an unknown one is ignored: 0), a
\* numeric value passes through.
Encode(model, row, c) ==
    LET v == Value(row, c)
    IN  IF \E j \in 1..Len(model.cat) : model.cat[j] = c
        THEN IF \E k \in 1..Len(Categories[c]) : Categories[c][k] = v
             THEN IndexOf(Categories[c], v)
             ELSE 0
        ELSE v

\* The random forest is opaque: its output is some fixed function of the
\* fitted estimator (training data, random_state) and of the encoded row.
\* Mix stands for that function.
RECURSIVE RowSum(_, _, _)
RowSum(model, row, i) ==
    IF i = 0 THEN 0
    ELSE (2 * i + 1) * Encode(model, row, model.features[i])
         + RowSum(model, row, i - 1)

Mix(model, row) ==
    61 * model.data + model.seed + Len(model.label)
        + RowSum(model, row, Len(model.features))

\* ColumnTransformer.transform raises ValueError("columns are missing")
\* when a fitted column is not in the frame.
Missing(model, row) == Range(model.features) \ Range(Columns(row))

\* viral_model.predict_proba(input_df)[0][1]: the share of the trees that
\* vote for the positive class.
predict_proba(model, row) ==
    [num |-> Mix(model, row) % (model.n_estimators + 1),
     den |-> model.n_estimators]

\* engagement_model.predict(input_df)[0], in units of 1e-5.
predict(model, row) == (Mix(model, row) % 13) * 7918

\* Faulty variant: the models are called in every pass, whatever the button returned.
PredictionsEveryPass(pressed, models, row) ==
    [viral_prob |-> <<predict_proba(models.viral_model, row)>>,
     engagement_pred |-> <<predict(models.engagement_model, row)>>,
     proba_calls |-> <<row>>, predict_calls |-> <<row>>, raised |-> FALSE]

\* Faulty variant: the models are called before the button is looked at, and the
\* results are dropped when it was not pressed.
PredictionsEager(pressed, models, row) ==
    [viral_prob |-> IF pressed THEN <<predict_proba(models.viral_model, row)>>
                    ELSE <<>>,
     engagement_pred |-> IF pressed
                         THEN <<predict(models.engagement_model, row)>>
                         ELSE <<>>,
     proba_calls |-> <<row>>, predict_calls |-> <<row>>, raised |-> FALSE]

\* Faulty variant: the two results are not reset at the top of a pass and keep the
\* values of the pass before.
PredictionsCarried(pressed, models, row) ==
    IF ~pressed
    THEN [viral_prob |-> viral_prob, engagement_pred |-> engagement_pred,
          proba_calls |-> <<>>, predict_calls |-> <<>>, raised |-> FALSE]
    ELSE [viral_prob |-> <<predict_proba(models.viral_model, row)>>,
          engagement_pred |-> <<predict(models.engagement_model, row)>>,
          proba_calls |-> <<row>>, predict_calls |-> <<row>>, raised |-> FALSE]

\* viral_prob = None; engagement_pred = None
\* if analyze: viral_prob = ...; engagement_pred = ...
Predictions(pressed, models, row) ==
    IF ~pressed
    THEN [viral_prob |-> <<>>, engagement_pred |-> <<>>,
          proba_calls |-> <<>>, predict_calls |-> <<>>, raised |-> FALSE]
    ELSE IF Missing(models.viral_model, row) # {}
    THEN [viral_prob |-> <<>>, engagement_pred |-> <<>>,
          proba_calls |-> <<row>>, predict_calls |-> <<>>, raised |-> TRUE]
    ELSE IF Missing(models.engagement_model, row) # {}
    THEN [viral_prob |-> <<predict_proba(models.viral_model, row)>>,
          engagement_pred |-> <<>>,
          proba_calls |-> <<row>>, predict_calls |-> <<row>>, raised |-> TRUE]
    ELSE [viral_prob |-> <<predict_proba(models.viral_model, row)>>,
          engagement_pred |-> <<predict(models.engagement_model, row)>>,
          proba_calls |-> <<row>>, predict_calls |-> <<row>>, raised |-> FALSE]

----------------------------------------------------------------------------
(* Presentation Layer *)

\* a / b rounded to the nearest integer, ties to even (a >= 0, b > 0)
Round(a, b) ==
    LET q == a \div b
        r == a % b
    IN  IF 2 * r < b THEN q
        ELSE IF 2 * r > b THEN q + 1
        ELSE IF q % 2 = 0 THEN q ELSE q + 1

\* n written with at least `width` digits
RECURSIVE Digits(_, _)
Digits(n, width) ==
    IF width <= 1 /\ n < 10 THEN ToString(n)
    ELSE Digits(n \div 10, width - 1) \o ToString(n % 10)

\* f"{viral_prob*100:.2f}%"
FormatPercent(p) ==
    LET h == Round(p.num * 10000, p.den)
    IN  Digits(h \div 100, 1) \o "." \o Digits(h % 100, 2) \o "%"

\* f"{engagement_pred:.4f}"
FormatFixed4(e) ==
    LET t == Round(e, 10)
    IN  Digits(t \div 10000, 1) \o "." \o Digits(t % 10000, 4)

\* f"{follower_count:,}"
RECURSIVE FormatThousands(_)
FormatThousands(n) ==
    IF n < 1000 THEN Digits(n, 1)
    ELSE FormatThousands(n \div 1000) \o "," \o Digits(n % 1000, 3)

\* Python truth value of viral_prob: None and 0.0 are false.
TruthyProb(vp) == vp # <<>> /\ vp[1].num # 0

\* Python truth value of engagement_pred: None and 0.0 are false.
TruthyPred(ep) == ep # <<>> /\ ep[1] # 0

\* {f"{viral_prob*100:.2f}%" if viral_prob else "--"}
ViralCard(vp) == IF TruthyProb(vp) THEN FormatPercent(vp[1]) ELSE "--"

\* {f"{engagement_pred:.4f}" if engagement_pred else "--"}
EngagementCard(ep) == IF TruthyPred(ep) THEN FormatFixed4(ep[1]) ELSE "--"

\* Faulty variant: a strict comparison.
MoreThan(p, a, b) == p.num * b > a * p.den

\* viral_prob >= a/b
AtLeast(p, a, b) == p.num * b >= a * p.den

\* The four banners of the AI Insights section (texts without the emoji):
\* st.info, st.success, st.warning, st.error.
InfoBanner == [kind |-> "info", text |-> "Adjust inputs and click Analyze Post"]
HighBanner == [kind |-> "success", text |-> "High virality potential"]
ModerateBanner == [kind |-> "warning", text |-> "Moderate virality"]
LowBanner == [kind |-> "error", text |-> "Low virality - optimize content"]

\* The AI Insights section: the banners it renders.
Insights(pressed, vp) ==
    IF ~pressed THEN <<InfoBanner>>
    ELSE IF AtLeast(vp[1], 7, 10) THEN <<HighBanner>>
    ELSE IF AtLeast(vp[1], 4, 10) THEN <<ModerateBanner>>
    ELSE <<LowBanner>>

----------------------------------------------------------------------------
(* The script, top to bottom *)

\* One execution of app.py for a session whose widgets hold w and whose
\* Analyze button returns pressed.
RunScript(w, pressed) ==
    \E d \in {cache_data(data_cache)} :
    \E m \in {cache_resource(resource_cache, d.value)} :
    \E row \in {InputDF(w)} :
    \E pr \in {Predictions(pressed, m.value, row)} :
    LET models == m.value
    IN  /\ data_cache' = d.store
        /\ reads' = reads + d.computed
        /\ resource_cache' = m.store
        /\ fits' = fits + m.computed
        /\ fit_log' = IF m.computed = 1 THEN Append(fit_log, models) ELSE fit_log
        /\ widgets' = w
        /\ analyze' = pressed
        /\ input_df' = row
        /\ viral_prob' = pr.viral_prob
        /\ engagement_pred' = pr.engagement_pred
        /\ proba_calls' = pr.proba_calls
        /\ predict_calls' = pr.predict_calls
        /\ raised' = pr.raised
        /\ IF pr.raised
           THEN /\ viral_card' = ""
                /\ engagement_card' = ""
                /\ followers_card' = ""
                /\ insight' = <<>>
           ELSE /\ viral_card' = ViralCard(pr.viral_prob)
                /\ engagement_card' = EngagementCard(pr.engagement_pred)
                /\ followers_card' = FormatThousands(w.follower_count)
                /\ insight' = Insights(pressed, pr.viral_prob)
        /\ UNCHANGED <<file, epoch>>

Init ==
    /\ file \in 0..(NumDatasets - 1)
    /\ epoch = 0
    /\ data_cache = <<>>
    /\ resource_cache = {}
    /\ reads = 0
    /\ fits = 0
    /\ fit_log = <<>>
    /\ session = FALSE
    /\ edits = 0
    /\ rejected = FALSE
    /\ last = FALSE
    /\ widgets = <<>>
    /\ analyze = FALSE
    /\ input_df = <<>>
    /\ viral_prob = <<>>
    /\ engagement_pred = <<>>
    /\ proba_calls = <<>>
    /\ predict_calls = <<>>
    /\ viral_card = ""
    /\ engagement_card = ""
    /\ followers_card = ""
    /\ insight = <<>>
    /\ raised = FALSE

\* A browser opens (or reloads) the page: a new session, every widget on
\* its default, the button not pressed.
Connect ==
    /\ session' = TRUE
    /\ edits' = 0
    /\ rejected' = FALSE
    /\ RunScript(Defaults(cache_data(data_cache).value), FALSE)
    /\ last' = FALSE

\* The user picks another option of a selectbox.
Select ==
    /\ session
    /\ edits < MaxEdits
    /\ \E name \in SelectboxNames :
         \E v \in Range(Options(data_cache[1], name)) :
            /\ v # widgets[name]
            /\ RunScript([widgets EXCEPT ![name] = v], FALSE)
    /\ edits' = edits + 1
    /\ last' = analyze
    /\ rejected' = FALSE
    /\ UNCHANGED session

\* The user drags a slider.
Slide ==
    /\ session
    /\ edits < MaxEdits
    /\ \E name \in DOMAIN Sliders :
         \E v \in Positions(Sliders[name]) :
            /\ v # widgets[name]
            /\ RunScript([widgets EXCEPT ![name] = v], FALSE)
    /\ edits' = edits + 1
    /\ last' = analyze
    /\ rejected' = FALSE
    /\ UNCHANGED session

\* The user types a number into a number_input.  A number the widget does
\* not commit changes nothing and triggers no re-execution.
TypeNumber ==
    /\ session
    /\ edits < MaxEdits
    /\ \E name \in DOMAIN NumberInputs :
         \E typed \in Typed(NumberInputs[name]) :
            LET v == number_input(NumberInputs[name], widgets[name], typed)
            IN  IF v # typed
                THEN /\ rejected' = TRUE
                     /\ UNCHANGED <<process, pass, session, edits, last>>
                ELSE IF v = widgets[name]
                THEN UNCHANGED vars
                ELSE /\ RunScript([widgets EXCEPT ![name] = v], FALSE)
                     /\ edits' = edits + 1
                     /\ last' = analyze
                     /\ rejected' = FALSE
                     /\ UNCHANGED session

\* The user clicks "Analyze Post" (disabled=follower_count <= 0).
ClickAnalyze ==
    /\ session
    /\ ~(widgets.follower_count <= 0)
    /\ RunScript(widgets, TRUE)
    /\ last' = analyze
    /\ rejected' = FALSE
    /\ UNCHANGED <<session, edits>>

\* The server process is restarted: the memoization stores and the session
\* are gone, the dataset file is still the same.
Restart ==
    /\ epoch < MaxRestarts
    /\ epoch' = epoch + 1
    /\ data_cache' = <<>>
    /\ resource_cache' = {}
    /\ reads' = 0
    /\ fits' = 0
    /\ session' = FALSE
    /\ edits' = 0
    /\ rejected' = FALSE
    /\ last' = FALSE
    /\ widgets' = <<>>
    /\ analyze' = FALSE
    /\ input_df' = <<>>
    /\ viral_prob' = <<>>
    /\ engagement_pred' = <<>>
    /\ proba_calls' = <<>>
    /\ predict_calls' = <<>>
    /\ viral_card' = ""
    /\ engagement_card' = ""
    /\ followers_card' = ""
    /\ insight' = <<>>
    /\ raised' = FALSE
    /\ UNCHANGED <<file, fit_log>>

\* One process and the interactions of its session.
Next ==
    \/ Connect
    \/ Select
    \/ Slide
    \/ TypeNumber
    \/ ClickAnalyze

Spec == Init /\ [][Next]_vars

\* Several processes, one after the other, on the same dataset file: each
\* trains on its first pass.
NextAcrossRestarts ==
    \/ Connect
    \/ Select
    \/ ClickAnalyze
    \/ Restart

TrainingSpec == Init /\ [][NextAcrossRestarts]_vars

----------------------------------------------------------------------------
(* Properties *)

\* C1: in every pass in which Analyze was pressed exactly one tier banner is
\* rendered for the probability p: the high one iff p >= 0.7, the moderate
\* one iff 0.4 <= p < 0.7, the low one iff p < 0.4.
TierOfProbability ==
    (session /\ analyze /\ ~raised) =>
        LET p == viral_prob[1]
        IN  /\ Len(insight) = 1
            /\ insight[1] \in {HighBanner, ModerateBanner, LowBanner}
            /\ insight[1] = HighBanner <=> 10 * p.num >= 7 * p.den
            /\ insight[1] = ModerateBanner <=>
                  (10 * p.num >= 4 * p.den /\ 10 * p.num < 7 * p.den)
            /\ insight[1] = LowBanner <=> 10 * p.num < 4 * p.den

\* A pass with Analyze pressed whose probability is exactly 0.7 shows the
\* high banner.
TierBoundaryReached ==
    /\ session /\ analyze /\ ~raised
    /\ 10 * viral_prob[1].num = 7 * viral_prob[1].den
    /\ insight = <<HighBanner>>

\* C2: in every pass in which Analyze was not pressed both KPI cards show
\* "--" and the insight area shows the instruction, and nothing else.
PlaceholdersWithoutAnalyze ==
    (session /\ ~analyze) =>
        /\ viral_card = "--"
        /\ engagement_card = "--"
        /\ insight = <<InfoBanner>>
        /\ ~raised

\* A pass without Analyze, after a pass with it, with a widget off its default.
PlaceholdersAfterAnalysis ==
    /\ session /\ ~analyze /\ last
    /\ widgets # Defaults(data_cache[1])
    /\ viral_card = "--" /\ engagement_card = "--"

\* C3: predict_proba and predict are called in a pass iff Analyze was
\* pressed for it, and then once each, on the row of the current widgets.
PredictOnlyOnAnalyze ==
    session =>
        /\ analyze => /\ proba_calls = <<InputDF(widgets)>>
                      /\ predict_calls = <<InputDF(widgets)>>
        /\ ~analyze => /\ proba_calls = <<>>
                       /\ predict_calls = <<>>

\* A pass with Analyze pressed after a widget change: one call of each model.
PredictedOnEditedRow ==
    /\ session /\ analyze /\ edits > 0
    /\ widgets # Defaults(data_cache[1])
    /\ Len(proba_calls) = 1 /\ Len(predict_calls) = 1

\* C4: the follower_count of every assembled row, and of every row handed
\* to a model, lies in [100, 1000000].
FollowerCountInRange ==
    session =>
        \A row \in {input_df} \cup Range(proba_calls) \cup Range(predict_calls) :
            /\ Value(row, "follower_count") >= 100
            /\ Value(row, "follower_count") <= 1000000

\* The widget has just refused a number, and the row still holds a
\* follower_count at a limit of the range.
OutOfRangeRefused ==
    /\ session /\ rejected
    /\ Value(input_df, "follower_count") \in {100, 1000000}

\* C5: the assembled row always has the same 14 columns in the same order.
FixedColumns ==
    session =>
        Columns(input_df) =
            << "account_type", "media_type", "content_category",
               "traffic_source", "follower_count", "hashtags_count",
               "caption_length", "has_cta", "is_weekend", "post_hour",
               "likes", "comments", "shares", "saves" >>

\* A row of 14 columns that differs from the default row in two places.
FixedColumnsOffDefault ==
    /\ session
    /\ Len(input_df) = 14
    /\ Cardinality({i \in 1..14 :
          input_df[i] # InputDF(Defaults(data_cache[1]))[i]}) = 2

\* C6: the columns of every assembled row are the columns both pipelines
\* were fitted on, the dataset's columns without the two labels, and no
\* prediction call fails.
ColumnsMatchFit ==
    session =>
        /\ ~raised
        /\ \A e \in resource_cache :
             \A model \in {e.value.viral_model, e.value.engagement_model} :
                /\ Range(model.features) = Range(Columns(input_df))
                /\ Range(model.features) =
                      Range(DatasetColumns) \ {"is_viral", "normalized_engagement"}

\* Both models have returned a prediction for an assembled row.
PredictedWithoutError ==
    /\ session /\ analyze /\ ~raised
    /\ resource_cache # {}
    /\ viral_prob # <<>> /\ engagement_pred # <<>>

\* C7: within one process the file is read at most once and the models are
\* fitted at most once; once memoized, the dataset and the pair of models
\* stay the same objects and are neither re-read nor re-trained.
MemoizedOnce ==
    [][epoch' = epoch =>
        /\ reads' <= 1
        /\ fits' <= 1
        /\ data_cache # <<>> => (data_cache' = data_cache /\ reads' = reads)
        /\ resource_cache # {} =>
              (resource_cache' = resource_cache /\ fits' = fits)]_vars

\* A third or later pass of a process that has read and trained once.
MemoizedAcrossPasses ==
    /\ session /\ last /\ edits > 0
    /\ reads = 1 /\ fits = 1
    /\ Len(data_cache) = 1 /\ Cardinality(resource_cache) = 1

\* The rows on which training runs are compared.
ProbeRows ==
    {InputDF(Defaults(read_csv(file)))} \cup (IF session THEN {input_df} ELSE {})

AnalyzedCardsShowValues ==
    (session /\ analyze /\ ~raised) =>
        /\ viral_card = FormatPercent(viral_prob[1])
        /\ engagement_card = FormatFixed4(engagement_pred[1])
        /\ viral_card # "--"
        /\ engagement_card # "--"

\* What a pass shows.
display ==
    <<viral_prob, engagement_pred, viral_card, engagement_card, followers_card,
      insight>>

\* C10: the pass after one with Analyze pressed, triggered by anything but
\* the button, has both predictions unset and shows the placeholders; and a
\* pass with the same widget values and the same trigger as the one before
\* it shows the same.
NoCarryOver ==
    [][(session /\ session') =>
        /\ (analyze /\ ~analyze') =>
              /\ viral_prob' = <<>>
              /\ engagement_pred' = <<>>
              /\ viral_card' = "--"
              /\ engagement_card' = "--"
              /\ insight' = <<InfoBanner>>
        /\ (widgets' = widgets /\ analyze' = analyze) => display' = display]_vars

\* A pass without Analyze right after a pass with it: predictions unset.
ResetAfterAnalysis ==
    /\ session /\ ~analyze /\ last
    /\ viral_prob = <<>> /\ engagement_pred = <<>>
    /\ insight = <<InfoBanner>>

====
